---------------------------- MODULE Spec2Model ----------------------------
(***************************************************************************)
(* A model of grapher/core.py (TimeSide): the colour palette builder, the  *)
(* waveform renderer, the spectrogram renderer, create_spectrogram_png and *)
(* the Noise audio fixture.                                                *)
(*                                                                         *)
(* Numbers.  The program computes in Python 2: "/" on two ints is floor    *)
(* division, int() truncates toward zero, and the rest is IEEE doubles.    *)
(* The model computes in exact rationals held as integer numerators over   *)
(* named denominators:                                                     *)
(*   - a sample (and a peak) s stands for s / PeakDen, in [-1, 1];         *)
(*   - a y coordinate n stands for n / YDen, YDen = 2 * PeakDen;           *)
(*   - a spectrum value v stands for v / SpecDen, in [0, 1];               *)
(*   - a frequency f stands for f / 10 Hz;                                 *)
(*   - the second component a of a y_to_bin entry stands for a / ADen.     *)
(* Where a double rounds differently from the exact rational the model     *)
(* follows the rational; no formula below depends on the difference.       *)
(***************************************************************************)
EXTENDS Integers, Sequences, FiniteSets, TLC

VARIABLES
    colors, flat, num_colors, palette,   \* interpolate_colors: arguments, result
    samples, peaks_ret,                  \* WaveformImage.peaks: argument, result
    wf,                                  \* a WaveformImage object
    peaks_adapter,                       \* its FixedSizeInputAdapter
    lines,                               \* the calls of ImageDraw.line, in order
    blended,                             \* pixels assigned by draw_anti_aliased_pixels
    silent,                              \* every frame processed so far was 0
    sg,                                  \* a SpectrogramImage object
    png,                                 \* create_spectrogram_png: the running call
    audio_file                           \* the Noise object it reads

vars == <<colors, flat, num_colors, palette, samples, peaks_ret, wf,
          peaks_adapter, lines, blended, silent, sg, png, audio_file>>

---------------------------------------------------------------------------
(* Bounds of the model.                                                    *)

MaxAnchors == 3      \* longest anchor list given to interpolate_colors
MaxColors == 5       \* largest num_colors
MaxSamples == 3      \* longest sample sequence given to peaks
PeakDen == 2         \* samples are multiples of 1/PeakDen
MaxWidth == 2        \* widest image of the waveform and spectrogram scenarios
MaxHeight == 6       \* tallest spectrogram image
MaxWaveHeight == 5   \* tallest waveform image
MaxFrames == 4       \* largest nframes of a WaveformImage
MaxBlock == 2        \* longest block of frames given to one process call
MaxFft == 4          \* largest fft_size
SpecDen == 2         \* spectrum values are multiples of 1/SpecDen
MaxPngWidth == 10    \* widest image of create_spectrogram_png
MaxPngHeight == 3    \* tallest image of create_spectrogram_png
MaxNoiseFrames == 40 \* largest num_frames of the Noise fixture

---------------------------------------------------------------------------
(* Python arithmetic.                                                      *)

\* int(n / d) for a rational n/d, d > 0: truncation toward zero
Trunc(n, d) == IF n >= 0 THEN n \div d ELSE -((-n) \div d)

\* round(n / d) for a rational n/d >= 0, d > 0: nearest integer, halves up
Round(n, d) == (2 * n + d) \div (2 * d)

Max2(a, b) == IF a >= b THEN a ELSE b
Min2(a, b) == IF a <= b THEN a ELSE b

---------------------------------------------------------------------------
(* color_schemes['default'], with the Python 2 quotients 58/4 = 14 etc.    *)

WaveformColors == << <<50, 0, 200>>, <<0, 220, 80>>, <<255, 224, 0>>, <<255, 0, 0>> >>

SpectrogramColors ==
    << <<0, 0, 0>>, <<58 \div 4, 68 \div 4, 65 \div 4>>,
       <<80 \div 2, 100 \div 2, 153 \div 2>>, <<90, 180, 100>>,
       <<224, 224, 44>>, <<255, 60, 30>>, <<255, 255, 255>> >>

DefaultNumColors == 256

---------------------------------------------------------------------------
(* interpolate_colors                                                      *)

\* r, g, b of palette entry i (0-based), lines 107-118.  index is
\* i*(len-1)/(num_colors-1.0); index_int its integer part; alpha the rest.
\* The caller guarantees num_colors # 1 and Len(cs) >= 1.
\* (variant: index taken as i*(len-1)/num_colors)
interpolate_entry_div_n(cs, i, n) ==
    LET d == n
        num == i * (Len(cs) - 1)
        index_int == num \div d
        rem == num % d
        chan(c) == IF rem > 0
                   THEN Trunc((d - rem) * cs[index_int + 1][c]
                              + rem * cs[index_int + 2][c], d)
                   ELSE cs[index_int + 1][c]
    IN  <<chan(1), chan(2), chan(3)>>

interpolate_entry(cs, i, n) ==
    LET d == n - 1
        num == i * (Len(cs) - 1)
        index_int == num \div d
        rem == num % d
        chan(c) == IF rem > 0
                   THEN Trunc((d - rem) * cs[index_int + 1][c]
                              + rem * cs[index_int + 2][c], d)
                   ELSE cs[index_int + 1][c]
    IN  <<chan(1), chan(2), chan(3)>>

\* palette.extend((r, g, b)) for every entry: the flat list of line 121
Flatten(s) == [k \in 1..(3 * Len(s)) |-> s[((k - 1) \div 3) + 1][((k - 1) % 3) + 1]]

\* The whole function, lines 98-125, with the exceptions Python raises:
\* division by num_colors - 1.0 = 0.0 at i = 0, and colors[0] of an empty
\* list.  A single anchor gives index 0.0 for every i and raises nothing.
interpolate_colors(cs, fl, n) ==
    IF n <= 0 THEN [status |-> "ok", value |-> <<>>]
    ELSE IF n = 1 THEN [status |-> "ZeroDivisionError", value |-> <<>>]
    ELSE IF Len(cs) = 0 THEN [status |-> "IndexError", value |-> <<>>]
    ELSE LET tuples == [k \in 1..n |-> interpolate_entry(cs, k - 1, n)]
         IN  [status |-> "ok",
              value |-> IF fl THEN Flatten(tuples) ELSE tuples]

color_lookup == interpolate_colors(WaveformColors, FALSE, DefaultNumColors).value

---------------------------------------------------------------------------
(* WaveformImage.peaks                                                     *)

\* numpy.argmax: the first index (1-based here) of the largest element
RECURSIVE argmax_from(_, _, _)
argmax_from(s, i, best) ==
    IF i > Len(s) THEN best
    ELSE argmax_from(s, i + 1, IF s[i] > s[best] THEN i ELSE best)

\* (variant: the last index of the largest element)
argmax_last(s) ==
    LET RECURSIVE scan(_, _)
        scan(i, best) == IF i > Len(s) THEN best
                         ELSE scan(i + 1, IF s[i] >= s[best] THEN i ELSE best)
    IN  scan(2, 1)

argmax(s) == argmax_from(s, 2, 1)

\* numpy.argmin: the first index of the smallest element
RECURSIVE argmin_from(_, _, _)
argmin_from(s, i, best) ==
    IF i > Len(s) THEN best
    ELSE argmin_from(s, i + 1, IF s[i] < s[best] THEN i ELSE best)

argmin(s) == argmin_from(s, 2, 1)

\* lines 161-175; numpy raises ValueError on an empty sequence
peaks(s) ==
    IF Len(s) = 0 THEN [status |-> "ValueError", value |-> <<>>]
    ELSE LET max_index == argmax(s)
             min_index == argmin(s)
         IN  [status |-> "ok",
              value |-> IF min_index < max_index
                        THEN <<s[min_index], s[max_index]>>
                        ELSE <<s[max_index], s[min_index]>>]

---------------------------------------------------------------------------
(* FixedSizeInputAdapter (timeside.core): rebuffers blocks of samples into *)
(* chunks of buffer_size samples, keeping the leftover between calls.      *)
(* Its code is not in grapher/core.py; it is taken from section 4.1 of the *)
(* design document.                                                        *)

\* the constructor: a chunk length must be positive
FixedSizeInputAdapter(buffer_size, pad) ==
    IF buffer_size <= 0
    THEN [status |-> "ValueError", buffer_size |-> buffer_size, pad |-> pad,
          buffer |-> <<>>]
    ELSE [status |-> "ok", buffer_size |-> buffer_size, pad |-> pad,
          buffer |-> <<>>]

RECURSIVE full_chunks(_, _)
full_chunks(data, n) ==
    IF Len(data) < n THEN <<>>
    ELSE <<SubSeq(data, 1, n)>> \o full_chunks(SubSeq(data, n + 1, Len(data)), n)

\* process(frames, eod): the chunks it yields and the adapter afterwards.
\* At end of data a partial chunk is zero-padded (pad) or dropped (no pad).
adapter_process(ad, frames, eod) ==
    LET data == ad.buffer \o frames
        n == ad.buffer_size
        rest == SubSeq(data, Len(data) - (Len(data) % n) + 1, Len(data))
        padded == rest \o [k \in 1..(n - Len(rest)) |-> 0]
        last == IF eod /\ ad.pad /\ rest # <<>> THEN <<padded>> ELSE <<>>
    IN  [chunks |-> full_chunks(data, n) \o last,
         adapter |-> [ad EXCEPT !.buffer = IF eod THEN <<>> ELSE rest]]

---------------------------------------------------------------------------
(* SpectralCentroid.process, as far as the waveform uses it: the value     *)
(* int(spectral_centroid * 255.0) that indexes color_lookup.  The FFT is   *)
(* not computed here: a buffer of zeros has energy 0 <= 1e-20 and centroid *)
(* 0 (lines 83-86); any other buffer may give any centroid in [0, 1], of   *)
(* which the model takes the two ends.                                     *)

IsSilent(frames) == \A k \in 1..Len(frames) : frames[k] = 0

centroid_indexes(frames) == IF IsSilent(frames) THEN {0} ELSE {0, 255}

---------------------------------------------------------------------------
(* WaveformImage                                                           *)

YDen == 2 * PeakDen

\* Image.new(mode, size, color) of PIL 1.x: an image of any non-negative
\* size, zero included, is created.
Image_new(width, height) == IF width >= 0 /\ height >= 0 THEN "ok" ELSE "ValueError"

\* __init__, lines 130-159: the object and its peaks adapter.  Line 149
\* divides by float(image_width); line 150 builds the adapter with chunk
\* length int(nframes / float(image_width)); line 154 creates the image.
WaveformImage_init(w, image_width, image_height, nframes) ==
    LET obj == [w EXCEPT !.image_width = image_width,
                         !.image_height = image_height,
                         !.nframes = nframes,
                         !.previous = <<>>, !.pixel_cursor = 0]
        ad == FixedSizeInputAdapter(nframes \div image_width, FALSE)
    IN  IF image_width = 0
        THEN [wf |-> [obj EXCEPT !.status = "ZeroDivisionError"],
              adapter |-> FixedSizeInputAdapter(0, FALSE)]
        ELSE IF ad.status # "ok"
        THEN [wf |-> [obj EXCEPT !.status = ad.status], adapter |-> ad]
        ELSE [wf |-> [obj EXCEPT !.status = Image_new(image_width, image_height)],
              adapter |-> ad]

\* the y coordinate of a peak, lines 185-186:
\* image_height * 0.5 - peak * (image_height - 4) * 0.5, as a multiple of 1/YDen
peak_y(image_height, peak) == image_height * PeakDen - peak * (image_height - 4)

\* self.pixel[x, y] = ... : PIL raises IndexError outside the image
pixel_store(s, x, y) ==
    IF x >= 0 /\ x < s.wf.image_width /\ y >= 0 /\ y < s.wf.image_height
    THEN [s EXCEPT !.blended = @ \cup {<<x, y>>}]
    ELSE [s EXCEPT !.wf.raised = "IndexError"]

\* the guard of the second blend, line 219
\* (variant: without alpha < 1.0)
min_blend_guard_no_upper(alpha, y_min_int) == alpha > 0 /\ y_min_int - 1 >= 0

min_blend_guard(alpha, y_min_int) == alpha > 0 /\ alpha < YDen /\ y_min_int - 1 >= 0

\* draw_anti_aliased_pixels, lines 199-226; s holds wf, lines and blended
draw_anti_aliased_pixels(s, x, y1, y2) ==
    LET y_max == Max2(y1, y2)
        y_max_int == Trunc(y_max, YDen)
        alpha1 == y_max - y_max_int * YDen
        s1 == IF alpha1 > 0 /\ alpha1 < YDen /\ y_max_int + 1 < s.wf.image_height
              THEN pixel_store(s, x, y_max_int + 1)
              ELSE s
        y_min == Min2(y1, y2)
        y_min_int == Trunc(y_min, YDen)
        alpha2 == YDen - (y_min - y_min_int * YDen)
    IN  IF s1.wf.raised # "none" THEN s1
        ELSE IF min_blend_guard(alpha2, y_min_int)
        THEN pixel_store(s1, x, y_min_int - 1)
        ELSE s1

\* the points given to self.draw.line, lines 190-193
\* (variant: never joined to the previous point)
line_points_unconnected(previous, x, y1, y2) == << <<x, y1>>, <<x, y2>> >>

line_points(previous, x, y1, y2) ==
    IF previous # <<>>
    THEN << previous, <<x, y1>>, <<x, y2>> >>
    ELSE << <<x, y1>>, <<x, y2>> >>

\* draw_peaks, lines 182-197; pk the pair of peaks, ci the palette index
draw_peaks(s, x, pk, ci) ==
    LET y1 == peak_y(s.wf.image_height, pk[1])
        y2 == peak_y(s.wf.image_height, pk[2])
        line == [points |-> line_points(s.wf.previous, x, y1, y2),
                 color |-> color_lookup[ci + 1]]
        s1 == [s EXCEPT !.lines = Append(@, line),
                        !.wf.previous = <<x, y2>>]
    IN  draw_anti_aliased_pixels(s1, x, y1, y2)

\* the test that ends the loop of process, line 237
\* (variant: > in place of ==)
cursor_past_end(w) == w.pixel_cursor > w.image_width

cursor_at_end(w) == w.pixel_cursor = w.image_width

\* the loop of process, lines 236-243, over the chunks the adapter yields
RECURSIVE process_loop(_, _, _)
process_loop(s, chunks, ci) ==
    IF chunks = <<>> \/ cursor_at_end(s.wf) THEN s
    ELSE LET d == draw_peaks(s, s.wf.pixel_cursor, peaks(Head(chunks)).value, ci)
         IN  IF d.wf.raised # "none" THEN d
             ELSE process_loop([d EXCEPT !.wf.pixel_cursor = @ + 1],
                               Tail(chunks), ci)

---------------------------------------------------------------------------
(* SpectrogramImage                                                        *)

Nyquist == 22050

\* frequencies are held in tenths of a Hz, bins and alpha * 255 in 1/ADen
ADen == Nyquist * 10

\* math.pow(10.0, y_min + y / (image_height - 1.0) * (y_max - y_min)) of
\* line 277, in tenths of a Hz, truncated: FreqTable[H][y + 1] is
\* the frequency of row y of an image of height H, 2 <= H <= 8.
FreqTable ==
    << <<>>,
       <<1000, 220500>>,
       <<1000, 14849, 220500>>,
       <<1000, 6041, 36498, 220500>>,
       <<1000, 3853, 14849, 57221, 220500>>,
       <<1000, 2942, 8656, 25470, 74942, 220500>>,
       <<1000, 2457, 6041, 14849, 36498, 89709, 220500>>,
       <<1000, 2161, 4672, 10099, 21831, 47191, 102008, 220500>> >>

row_freq(image_height, y) == FreqTable[image_height][y + 1]

\* bin of line 278, freq / 22050.0 * (fft_size/2 + 1), as a multiple of 1/ADen
row_bin(image_height, fft_size, y) ==
    row_freq(image_height, y) * (fft_size \div 2 + 1)

\* the test of line 280
bin_in_range(b, fft_size) == b < (fft_size \div 2) * ADen

\* the entry (int(bin), alpha * 255) of lines 281-283; the second component
\* is a multiple of 1/ADen
\* (variant: alpha taken as bin, not bin - int(bin))
bin_entry_unreduced(b) == <<b \div ADen, b * 255>>

bin_entry(b) == <<b \div ADen, (b % ADen) * 255>>

\* the loop of lines 276-283, from row y on
RECURSIVE y_to_bin_from(_, _, _)
y_to_bin_from(y, image_height, fft_size) ==
    IF y >= image_height THEN <<>>
    ELSE LET b == row_bin(image_height, fft_size, y)
         IN  (IF bin_in_range(b, fft_size) THEN <<bin_entry(b)>> ELSE <<>>)
             \o y_to_bin_from(y + 1, image_height, fft_size)

\* __init__, lines 253-288.  Line 277 divides by image_height - 1.0.
SpectrogramImage_init(g, image_width, image_height, fft_size) ==
    LET obj == [g EXCEPT !.image_width = image_width,
                         !.image_height = image_height,
                         !.fft_size = fft_size,
                         !.y_to_bin = <<>>, !.pixels = <<>>,
                         !.calls = 0, !.last_spectrum = <<>>, !.saved = FALSE]
        img == Image_new(image_height, image_width)
        pal == interpolate_colors(SpectrogramColors, TRUE, DefaultNumColors)
    IN  IF img # "ok" THEN [obj EXCEPT !.status = img]
        ELSE IF pal.status # "ok" THEN [obj EXCEPT !.status = pal.status]
        ELSE IF image_height = 1 THEN [obj EXCEPT !.status = "ZeroDivisionError"]
        ELSE [obj EXCEPT !.status = "ok",
                         !.y_to_bin = y_to_bin_from(0, image_height, fft_size)]

\* the value appended for one mapping entry, line 292:
\* int((255.0 - alpha) * spectrum[index] + alpha * spectrum[index + 1])
\* (variant: round() in place of int())
spectrum_pixel_rounded(entry, spectrum) ==
    Round((255 * ADen - entry[2]) * spectrum[entry[1]]
          + entry[2] * spectrum[entry[1] + 1], ADen * SpecDen)

spectrum_pixel(entry, spectrum) ==
    Trunc((255 * ADen - entry[2]) * spectrum[entry[1]]
          + entry[2] * spectrum[entry[1] + 1], ADen * SpecDen)

\* the zeros appended for the rows without a mapping entry, lines 294-295
\* (variant: range(len(self.y_to_bin) + 1, self.image_height))
zero_rows_one_short(g) == [k \in 1..(g.image_height - Len(g.y_to_bin) - 1) |-> 0]

zero_rows(g) == [k \in 1..(g.image_height - Len(g.y_to_bin)) |-> 0]

\* draw_spectrum, lines 290-295; spectrum is a function on 0..fft_size/2.
\* calls counts the calls so far and last_spectrum keeps the last argument.
draw_spectrum(g, x, spectrum) ==
    [g EXCEPT !.pixels = @ \o [k \in 1..Len(g.y_to_bin) |->
                                   spectrum_pixel(g.y_to_bin[k], spectrum)]
                           \o zero_rows(g),
              !.calls = @ + 1,
              !.last_spectrum = spectrum]

\* save, lines 297-299
SpectrogramImage_save(g) == [g EXCEPT !.saved = TRUE]

\* the spectra a column can have: fft_size/2 + 1 values in [0, 1]
Spectra(fft_size) == [0..(fft_size \div 2) -> 0..SpecDen]

---------------------------------------------------------------------------
(* Noise                                                                   *)

\* read_frames, lines 348-358: the outcome and the object afterwards
Noise_read_frames(af, frames_to_read) ==
    IF af.has_broken_header
       /\ af.seekpoint + frames_to_read > af.num_frames \div 2
    THEN [status |-> "IOError", audio_file |-> [af EXCEPT !.raised = TRUE]]
    ELSE LET num_frames_left == af.num_frames - af.seekpoint
             will_read == IF num_frames_left < frames_to_read
                          THEN num_frames_left ELSE frames_to_read
         IN  [status |-> "ok",
              audio_file |-> [af EXCEPT !.seekpoint = @ + will_read]]

\* seek, lines 336-337
Noise_seek(af, seekpoint) == [af EXCEPT !.seekpoint = seekpoint]

---------------------------------------------------------------------------
(* create_spectrogram_png                                                  *)

DotPeriod == 10

\* AudioProcessor.spectral_centroid(seek_point), as far as it touches the
\* audio source: it seeks and reads one frame of fft_size samples.  The
\* class is not in grapher/core.py; it is taken from sections 6 and 7 of
\* the design document (a failing read propagates).
AudioProcessor_spectral_centroid(af, seek_point, fft_size) ==
    Noise_read_frames(Noise_seek(af, seek_point), fft_size)

\* the spectra the analysis of a column of noise is taken to give
PngSpectra(fft_size) ==
    { [b \in 0..(fft_size \div 2) |-> 0], [b \in 0..(fft_size \div 2) |-> SpecDen] }

\* lines 304-309: samples_per_pixel divides by float(image_width); the
\* SpectrogramImage is built
create_spectrogram_png_start(p, g) ==
    LET built == SpectrogramImage_init(g, p.image_width, p.image_height, p.fft_size)
    IN  IF p.image_width = 0
        THEN [png |-> [p EXCEPT !.pc = "raised", !.error = "ZeroDivisionError"],
              sg |-> g]
        ELSE IF built.status # "ok"
        THEN [png |-> [p EXCEPT !.pc = "raised", !.error = built.status],
              sg |-> built]
        ELSE [png |-> [p EXCEPT !.pc = "loop", !.x = 0], sg |-> built]

\* one pass of the loop body, lines 313-320, for column p.x.  Line 313
\* takes x % (image_width/10); seek_point is int(x * samples_per_pixel).
\* (variant: an IOError of the source is caught and the column drawn)
create_spectrogram_png_column_swallow(p, g, af, spectrum) ==
    LET seek_point == (p.x * af.num_frames) \div p.image_width
        rd == AudioProcessor_spectral_centroid(af, seek_point, p.fft_size)
    IN  IF p.image_width \div DotPeriod = 0
        THEN [png |-> [p EXCEPT !.pc = "raised", !.error = "ZeroDivisionError"],
              sg |-> g, audio_file |-> af]
        ELSE [png |-> [p EXCEPT !.x = @ + 1],
              sg |-> draw_spectrum(g, p.x, spectrum),
              audio_file |-> rd.audio_file]

create_spectrogram_png_column(p, g, af, spectrum) ==
    LET seek_point == (p.x * af.num_frames) \div p.image_width
        rd == AudioProcessor_spectral_centroid(af, seek_point, p.fft_size)
    IN  IF p.image_width \div DotPeriod = 0
        THEN [png |-> [p EXCEPT !.pc = "raised", !.error = "ZeroDivisionError"],
              sg |-> g, audio_file |-> af]
        ELSE IF rd.status # "ok"
        THEN [png |-> [p EXCEPT !.pc = "raised", !.error = rd.status],
              sg |-> g, audio_file |-> rd.audio_file]
        ELSE [png |-> [p EXCEPT !.x = @ + 1],
              sg |-> draw_spectrum(g, p.x, spectrum),
              audio_file |-> rd.audio_file]

\* the loop of line 311 is over: every x in range(image_width) was taken
\* (variant: range(image_width - 1))
loop_done_one_early(p) == p.x >= p.image_width - 1

loop_done(p) == p.x = p.image_width

---------------------------------------------------------------------------
(* States before any operation.  An object that a scenario does not use    *)
(* has status "absent"; "new" and "pending" mean the arguments are chosen  *)
(* and the call has not run.                                               *)

SeqsUpTo(S, n) == UNION { [1..k -> S] : k \in 0..n }

AnchorColors == { <<0, 0, 0>>, <<255, 224, 0>>, <<50, 0, 200>> }

SampleVals == { -PeakDen, 0, 1 }

NoPalette ==
    /\ colors = <<>> /\ flat = FALSE /\ num_colors = 0
    /\ palette = [status |-> "absent", value |-> <<>>]

NoPeaks ==
    /\ samples = <<>>
    /\ peaks_ret = [status |-> "absent", value |-> <<>>]

EmptyWaveform ==
    [status |-> "absent", image_width |-> 0, image_height |-> 0, nframes |-> 0,
     previous |-> <<>>, pixel_cursor |-> 0, raised |-> "none", saved |-> FALSE]

NoWaveform ==
    /\ wf = EmptyWaveform
    /\ peaks_adapter = [status |-> "absent", buffer_size |-> 0, pad |-> FALSE,
                        buffer |-> <<>>]
    /\ lines = <<>> /\ blended = {} /\ silent = TRUE

EmptySpectrogram ==
    [status |-> "absent", image_width |-> 0, image_height |-> 0, fft_size |-> 0,
     y_to_bin |-> <<>>, pixels |-> <<>>, calls |-> 0, last_spectrum |-> <<>>,
     saved |-> FALSE]

NoPng ==
    /\ png = [pc |-> "absent", x |-> 0, error |-> "none", image_width |-> 0,
              image_height |-> 0, fft_size |-> 0]
    /\ audio_file = [num_frames |-> 0, seekpoint |-> 0,
                     has_broken_header |-> FALSE, raised |-> FALSE]

InitPalette ==
    /\ colors \in SeqsUpTo(AnchorColors, MaxAnchors)
    /\ flat \in BOOLEAN
    /\ num_colors \in 0..MaxColors
    /\ palette = [status |-> "pending", value |-> <<>>]
    /\ NoPeaks /\ NoWaveform /\ sg = EmptySpectrogram /\ NoPng

InitPeaks ==
    /\ samples \in SeqsUpTo(-PeakDen..PeakDen, MaxSamples)
    /\ peaks_ret = [status |-> "pending", value |-> <<>>]
    /\ NoPalette /\ NoWaveform /\ sg = EmptySpectrogram /\ NoPng

InitWaveform ==
    /\ \E w \in 0..MaxWidth, h \in 0..MaxWaveHeight, n \in 0..MaxFrames :
          wf = [EmptyWaveform EXCEPT !.status = "new", !.image_width = w,
                                     !.image_height = h, !.nframes = n]
    /\ peaks_adapter = [status |-> "absent", buffer_size |-> 0, pad |-> FALSE,
                        buffer |-> <<>>]
    /\ lines = <<>> /\ blended = {} /\ silent = TRUE
    /\ NoPalette /\ NoPeaks /\ sg = EmptySpectrogram /\ NoPng

InitSpectrogram ==
    /\ \E w \in 0..MaxWidth, h \in 0..MaxHeight, f \in 1..MaxFft :
          sg = [EmptySpectrogram EXCEPT !.status = "new", !.image_width = w,
                                        !.image_height = h, !.fft_size = f]
    /\ NoPalette /\ NoPeaks /\ NoWaveform /\ NoPng

InitPng ==
    /\ \E w \in (DotPeriod - 1)..MaxPngWidth, h \in 0..MaxPngHeight, f \in 1..MaxFft :
          png = [pc |-> "start", x |-> 0, error |-> "none", image_width |-> w,
                 image_height |-> h, fft_size |-> f]
    /\ \E n \in {MaxNoiseFrames \div 2, MaxNoiseFrames}, b \in BOOLEAN :
          audio_file = [num_frames |-> n, seekpoint |-> 0,
                        has_broken_header |-> b, raised |-> FALSE]
    /\ sg = EmptySpectrogram
    /\ NoPalette /\ NoPeaks /\ NoWaveform

---------------------------------------------------------------------------
(* Operations.                                                             *)

\* a call of interpolate_colors(colors, flat, num_colors)
BuildPalette ==
    /\ palette.status = "pending"
    /\ palette' = interpolate_colors(colors, flat, num_colors)
    /\ UNCHANGED <<colors, flat, num_colors, samples, peaks_ret, wf,
                   peaks_adapter, lines, blended, silent, sg, png, audio_file>>

\* a call of WaveformImage.peaks(samples)
CallPeaks ==
    /\ peaks_ret.status = "pending"
    /\ peaks_ret' = peaks(samples)
    /\ UNCHANGED <<colors, flat, num_colors, palette, samples, wf,
                   peaks_adapter, lines, blended, silent, sg, png, audio_file>>

\* WaveformImage(image_width, image_height, nframes, ...)
WaveformConstruct ==
    /\ wf.status = "new"
    /\ LET r == WaveformImage_init(wf, wf.image_width, wf.image_height, wf.nframes)
       IN  /\ wf' = r.wf
           /\ peaks_adapter' = r.adapter
    /\ UNCHANGED <<colors, flat, num_colors, palette, samples, peaks_ret,
                   lines, blended, silent, sg, png, audio_file>>

\* WaveformImage.process(frames, eod), lines 228-243.  An exception ends
\* the rendering: no further call is made on the object.
WaveformProcess ==
    /\ wf.status = "ok" /\ wf.raised = "none" /\ ~wf.saved
    /\ \E frames \in SeqsUpTo(SampleVals, MaxBlock), eod \in BOOLEAN :
         \E ci \in centroid_indexes(frames) :
           LET a == adapter_process(peaks_adapter, frames, eod)
               r == process_loop([wf |-> wf, lines |-> lines, blended |-> blended],
                                 a.chunks, ci)
           IN  /\ wf' = r.wf
               /\ lines' = r.lines
               /\ blended' = r.blended
               /\ peaks_adapter' = a.adapter
               /\ silent' = (silent /\ IsSilent(frames))
    /\ UNCHANGED <<colors, flat, num_colors, palette, samples, peaks_ret,
                   sg, png, audio_file>>

\* WaveformImage.save(), lines 245-249: the centre row image_height/2 is
\* brightened through self.pixel, then the image is written
WaveformSave ==
    /\ wf.status = "ok" /\ wf.raised = "none" /\ ~wf.saved
    /\ wf' = IF wf.image_height \div 2 < wf.image_height
             THEN [wf EXCEPT !.saved = TRUE]
             ELSE [wf EXCEPT !.raised = "IndexError"]
    /\ UNCHANGED <<colors, flat, num_colors, palette, samples, peaks_ret,
                   peaks_adapter, lines, blended, silent, sg, png, audio_file>>

\* SpectrogramImage(image_width, image_height, fft_size) by a caller
SpectrogramConstruct ==
    /\ sg.status = "new"
    /\ sg' = SpectrogramImage_init(sg, sg.image_width, sg.image_height, sg.fft_size)
    /\ UNCHANGED <<colors, flat, num_colors, palette, samples, peaks_ret, wf,
                   peaks_adapter, lines, blended, silent, png, audio_file>>

\* draw_spectrum(x, spectrum) by a caller that draws one column after another
SpectrogramDraw ==
    /\ sg.status = "ok" /\ png.pc = "absent" /\ ~sg.saved
    /\ sg.calls < sg.image_width
    /\ \E spectrum \in Spectra(sg.fft_size) :
          sg' = draw_spectrum(sg, sg.calls, spectrum)
    /\ UNCHANGED <<colors, flat, num_colors, palette, samples, peaks_ret, wf,
                   peaks_adapter, lines, blended, silent, png, audio_file>>

\* save(filename) by a caller
SpectrogramSave ==
    /\ sg.status = "ok" /\ png.pc = "absent" /\ ~sg.saved
    /\ sg.calls = sg.image_width
    /\ sg' = SpectrogramImage_save(sg)
    /\ UNCHANGED <<colors, flat, num_colors, palette, samples, peaks_ret, wf,
                   peaks_adapter, lines, blended, silent, png, audio_file>>

\* create_spectrogram_png, lines 304-309
PngStart ==
    /\ png.pc = "start"
    /\ LET r == create_spectrogram_png_start(png, sg)
       IN  png' = r.png /\ sg' = r.sg
    /\ UNCHANGED <<colors, flat, num_colors, palette, samples, peaks_ret, wf,
                   peaks_adapter, lines, blended, silent, audio_file>>

\* create_spectrogram_png, one pass of the loop of lines 311-320
PngColumn ==
    /\ png.pc = "loop" /\ ~loop_done(png)
    /\ \E spectrum \in PngSpectra(png.fft_size) :
          LET r == create_spectrogram_png_column(png, sg, audio_file, spectrum)
          IN  png' = r.png /\ sg' = r.sg /\ audio_file' = r.audio_file
    /\ UNCHANGED <<colors, flat, num_colors, palette, samples, peaks_ret, wf,
                   peaks_adapter, lines, blended, silent>>

\* create_spectrogram_png, line 322
PngSave ==
    /\ png.pc = "loop" /\ loop_done(png)
    /\ sg' = SpectrogramImage_save(sg)
    /\ png' = [png EXCEPT !.pc = "done"]
    /\ UNCHANGED <<colors, flat, num_colors, palette, samples, peaks_ret, wf,
                   peaks_adapter, lines, blended, silent, audio_file>>

---------------------------------------------------------------------------
(* Specifications.                                                         *)

SpecPalette == InitPalette /\ [][BuildPalette]_vars

SpecPeaks == InitPeaks /\ [][CallPeaks]_vars

NextWaveform == WaveformConstruct \/ WaveformProcess \/ WaveformSave

SpecWaveform == InitWaveform /\ [][NextWaveform]_vars

NextSpectrogram ==
    \/ SpectrogramConstruct \/ SpectrogramDraw \/ SpectrogramSave
    \/ PngStart \/ PngColumn \/ PngSave

InitSpectrograms == InitSpectrogram \/ InitPng

SpecSpectrogram == InitSpectrograms /\ [][NextSpectrogram]_vars

Init == InitPalette \/ InitPeaks \/ InitWaveform \/ InitSpectrogram \/ InitPng

Next == BuildPalette \/ CallPeaks \/ NextWaveform \/ NextSpectrogram

Spec == Init /\ [][Next]_vars

---------------------------------------------------------------------------
(* Properties.                                                             *)

Components(entry) == { entry[c] : c \in 1..3 }

PaletteWellFormed ==
    /\ palette.status = "ok"
    /\ Len(palette.value) = num_colors
    /\ \A k \in 1..Len(palette.value) : Components(palette.value[k]) \subseteq 0..255
    /\ num_colors >= 1 => /\ palette.value[1] = colors[1]
                          /\ palette.value[num_colors] = colors[Len(colors)]

PaletteBuilt == palette.status \notin {"absent", "pending"}

\* C1 as stated: for every anchor list of length >= 2 and every count,
\* interpolate_colors returns count entries with components in 0..255, the
\* first equal to the first anchor and the last equal to the last anchor.
C1_AnyCount ==
    (PaletteBuilt /\ ~flat /\ Len(colors) >= 2) => PaletteWellFormed

\* C1, amended: the same for every count >= 2.
C1_CountAtLeastTwo ==
    (PaletteBuilt /\ ~flat /\ Len(colors) >= 2 /\ num_colors >= 2) => PaletteWellFormed

\* a palette with an entry strictly between two different anchors
C1_Witness ==
    /\ palette.status = "ok" /\ ~flat /\ Len(colors) >= 2 /\ num_colors >= 3
    /\ colors[1] # colors[Len(colors)]
    /\ \E k \in 1..Len(palette.value) :
          \A j \in 1..Len(colors) : palette.value[k] # colors[j]

SeqRange(s) == { s[k] : k \in 1..Len(s) }
SeqMin(s) == CHOOSE v \in SeqRange(s) : \A u \in SeqRange(s) : v <= u
SeqMax(s) == CHOOSE v \in SeqRange(s) : \A u \in SeqRange(s) : v >= u
FirstIndexOf(s, v) ==
    CHOOSE i \in 1..Len(s) : s[i] = v /\ \A j \in 1..(i - 1) : s[j] # v

\* C2: for a non-empty sequence peaks returns (min, max) when the first
\* minimum comes strictly before the first maximum, and (max, min) otherwise.
C2_PeaksInTemporalOrder ==
    (peaks_ret.status \notin {"absent", "pending"} /\ Len(samples) >= 1) =>
        /\ peaks_ret.status = "ok"
        /\ peaks_ret.value =
              IF FirstIndexOf(samples, SeqMin(samples))
                   < FirstIndexOf(samples, SeqMax(samples))
              THEN <<SeqMin(samples), SeqMax(samples)>>
              ELSE <<SeqMax(samples), SeqMin(samples)>>

\* the maximum came first, and it occurs again after the minimum
C2_Witness ==
    /\ peaks_ret.status = "ok" /\ Len(samples) >= 3
    /\ peaks_ret.value[1] > peaks_ret.value[2]
    /\ samples[Len(samples)] = peaks_ret.value[1]

\* C3: every draw_spectrum call appends image_height values, the last ones
\* being a 0 for each row without a mapping entry; after k calls the buffer
\* holds k * image_height values, and image_width * image_height when the
\* columns are all drawn and save is next.
C3_BufferLength ==
    sg.status = "ok" =>
        /\ Len(sg.pixels) = sg.calls * sg.image_height
        /\ \A c \in 0..(sg.calls - 1) :
              \A r \in (Len(sg.y_to_bin) + 1)..sg.image_height :
                 sg.pixels[c * sg.image_height + r] = 0
        /\ png.pc = "loop" => sg.calls = png.x
        /\ (png.pc = "loop" /\ png.x = png.image_width) =>
              Len(sg.pixels) = sg.image_width * sg.image_height
        /\ sg.saved => Len(sg.pixels) = sg.image_width * sg.image_height

\* create_spectrogram_png has drawn every column and has not saved yet
C3_Witness ==
    /\ png.pc = "loop" /\ png.x = png.image_width /\ ~sg.saved
    /\ Len(sg.y_to_bin) > 0 /\ Len(sg.y_to_bin) < sg.image_height
    /\ Len(sg.pixels) = png.image_width * png.image_height

\* C4: create_spectrogram_png saves only after image_width columns were
\* drawn; an IOError of the audio source ends the call with that error, the
\* failing column is not drawn, the source is not read again, and save is
\* not called.
C4_SaveOnlyAfterAllColumns ==
    png.pc # "absent" =>
        /\ sg.saved => /\ png.pc = "done"
                       /\ png.x = png.image_width
                       /\ sg.calls = png.image_width
                       /\ ~audio_file.raised
        /\ audio_file.raised =>
              /\ png.pc = "raised" /\ png.error = "IOError"
              /\ ~sg.saved
              /\ sg.calls = png.x
              /\ audio_file.seekpoint
                    = (png.x * audio_file.num_frames) \div png.image_width

\* the broken-header fixture failed after some columns were drawn
C4_Witness ==
    /\ audio_file.has_broken_header /\ audio_file.raised
    /\ png.pc = "raised" /\ png.x > 0 /\ Len(sg.pixels) > 0

CentreRowOnly == \A b \in blended : b[2] = wf.image_height \div 2

\* C5 as stated: for silence, at any width and height, no pixel outside row
\* image_height/2 is assigned by draw_anti_aliased_pixels.
C5_AnyHeight == (wf.status = "ok" /\ silent) => CentreRowOnly

\* C5, amended: the same at any width and any height that is even or 1.
C5_EvenHeight ==
    (wf.status = "ok" /\ silent
       /\ (wf.image_height % 2 = 0 \/ wf.image_height = 1)) => CentreRowOnly

\* every column of an image of even height was drawn from silence
C5_Witness ==
    /\ wf.status = "ok" /\ silent /\ wf.image_height % 2 = 0
    /\ wf.image_height >= 2
    /\ wf.pixel_cursor = wf.image_width /\ Len(lines) = wf.image_width

\* C6: building a palette (of 2 or more entries) from fewer than 2 anchors,
\* constructing a WaveformImage whose chunk length int(nframes/image_width)
\* is not positive or that has a zero dimension, and constructing a
\* SpectrogramImage that has a zero dimension each end in an error.
C6_FailFast ==
    /\ (PaletteBuilt /\ Len(colors) < 2 /\ num_colors >= 2) => palette.status # "ok"
    /\ (wf.status \notin {"absent", "new"}
          /\ (wf.image_width = 0 \/ wf.image_height = 0
                \/ wf.nframes \div wf.image_width <= 0)) => wf.status # "ok"
    /\ (sg.status \notin {"absent", "new"}
          /\ (sg.image_width = 0 \/ sg.image_height = 0)) => sg.status # "ok"

LineX(line) == line.points[Len(line.points)][1]

C7_CursorInvariant ==
    wf.status = "ok" =>
        /\ wf.pixel_cursor \in 0..wf.image_width
        /\ \A k \in 1..Len(lines) : LineX(lines[k]) \in 0..(wf.image_width - 1)
        /\ wf.raised = "none" =>
              /\ Len(lines) = wf.pixel_cursor
              /\ \A k \in 1..Len(lines) : LineX(lines[k]) = k - 1

C7_CursorStep ==
    wf.status = "ok" =>
        /\ wf'.pixel_cursor >= wf.pixel_cursor
        /\ wf'.raised = "none" =>
              wf'.pixel_cursor - wf.pixel_cursor = Len(lines') - Len(lines)
        /\ wf.pixel_cursor = wf.image_width =>
              /\ lines' = lines /\ blended' = blended
              /\ wf'.pixel_cursor = wf.pixel_cursor
              /\ wf'.previous = wf.previous

\* C7: pixel_cursor stays in 0..image_width and grows by one per column
\* drawn, column k being drawn at x = k - 1 < image_width; a call that
\* arrives when the cursor is image_width draws nothing and leaves the
\* cursor, the lines and the blended pixels as they are.
C7_CursorBounded == []C7_CursorInvariant /\ [][C7_CursorStep]_vars

\* the cursor reached image_width and samples arrived after that
C7_Witness ==
    /\ wf.status = "ok" /\ wf.image_width >= 2
    /\ wf.pixel_cursor = wf.image_width /\ Len(lines) = wf.image_width
    /\ peaks_adapter.buffer # <<>>

\* the exact value (255 - alpha) * spectrum[bin] + alpha * spectrum[bin + 1]
\* of mapping entry k for the last spectrum drawn, over ADen * SpecDen
ExactNum(k) ==
    LET e == sg.y_to_bin[k]
    IN  (255 * ADen - e[2]) * sg.last_spectrum[e[1]]
        + e[2] * sg.last_spectrum[e[1] + 1]

LastColumnPixel(k) == sg.pixels[(sg.calls - 1) * sg.image_height + k]

\* C8 as stated: the value appended for a mapping entry is the exact value
\* rounded to the nearest integer (at most 1/2 away from it).
C8_Rounded ==
    (sg.status = "ok" /\ sg.calls >= 1) =>
        \A k \in 1..Len(sg.y_to_bin) :
           LET d == ExactNum(k) - LastColumnPixel(k) * ADen * SpecDen
           IN  2 * d <= ADen * SpecDen /\ 2 * d > -(ADen * SpecDen)

\* C8, amended: the value appended is the exact value truncated to an
\* integer (the largest integer not above it).
C8_Truncated ==
    (sg.status = "ok" /\ sg.calls >= 1) =>
        \A k \in 1..Len(sg.y_to_bin) :
           LET d == ExactNum(k) - LastColumnPixel(k) * ADen * SpecDen
           IN  d >= 0 /\ d < ADen * SpecDen

\* a column with a value whose fractional part is at least 1/2
C8_Witness ==
    /\ sg.status = "ok" /\ sg.calls >= 1
    /\ \E k \in 1..Len(sg.y_to_bin) :
          2 * (ExactNum(k) - LastColumnPixel(k) * ADen * SpecDen) >= ADen * SpecDen

\* C9: the first line drawn has only the two points of its column; every
\* later line starts at the last point (x, y2) of the line before it and
\* goes on to the two points of its own column; the stored previous point
\* is the last point of the last line.
C9_ConnectedLines ==
    wf.status = "ok" =>
        /\ Len(lines) = 0 => wf.previous = <<>>
        /\ Len(lines) >= 1 =>
              /\ Len(lines[1].points) = 2
              /\ wf.previous = lines[Len(lines)].points[Len(lines[Len(lines)].points)]
        /\ \A k \in 1..Len(lines) :
              LET pts == lines[k].points
              IN  /\ pts[Len(pts)][1] = pts[Len(pts) - 1][1]
                  /\ k >= 2 =>
                        /\ Len(pts) = 3
                        /\ pts[1] = lines[k - 1].points[Len(lines[k - 1].points)]
                        /\ pts[1][1] < pts[2][1]

\* a second column joined to a first one at a different height
C9_Witness ==
    /\ wf.status = "ok" /\ Len(lines) >= 2
    /\ lines[2].points[1][2] # lines[2].points[2][2]
    /\ lines[1].points[1][2] # lines[1].points[2][2]

\* C10: for fft_size >= 2 and image_height >= 2 every stored entry
\* (index, alpha) has 0 <= index, index + 1 <= fft_size/2 and
\* 0 <= alpha < 255, entry k is the one of row k - 1, the rows from
\* len(y_to_bin) on have no entry, and every pixel value is in 0..255.
C10_MappingInRange ==
    (sg.status = "ok" /\ sg.fft_size >= 2 /\ sg.image_height >= 2) =>
        /\ Len(sg.y_to_bin) <= sg.image_height
        /\ \A k \in 1..Len(sg.y_to_bin) :
              LET e == sg.y_to_bin[k]
                  b == row_bin(sg.image_height, sg.fft_size, k - 1)
              IN  /\ e[1] >= 0 /\ e[1] + 1 <= sg.fft_size \div 2
                  /\ e[2] >= 0 /\ e[2] < 255 * ADen
                  /\ e[1] * ADen <= b /\ b < (e[1] + 1) * ADen
                  /\ e[2] = 255 * (b - e[1] * ADen)
        /\ \A y \in Len(sg.y_to_bin)..(sg.image_height - 1) :
              row_bin(sg.image_height, sg.fft_size, y) >= (sg.fft_size \div 2) * ADen
        /\ \A k \in 1..Len(sg.pixels) : sg.pixels[k] \in 0..255

\* a mapping that reaches a bin above 0 and a column with a pixel above 0
C10_Witness ==
    /\ sg.status = "ok" /\ sg.fft_size >= 2 /\ sg.image_height >= 2
    /\ \E k \in 1..Len(sg.y_to_bin) : sg.y_to_bin[k][1] >= 1
    /\ \E k \in 1..Len(sg.pixels) : sg.pixels[k] > 0

===========================================================================
